---- MODULE Spec2Model ----
(***************************************************************************)
(* Model of sio_asyncapi.application.AsyncAPISocketIO: the registration    *)
(* objects returned by on(...), their application to handlers, the         *)
(* validating wrapper built by _handle_all, on_error_default, and the      *)
(* example application's default_error_handler.                           *)
(***************************************************************************)
EXTENDS Integers, Sequences, FiniteSets, TLC

VARIABLES validate, generate_docs, decs, regs, docs, errorHandler, last

vars == <<validate, generate_docs, decs, regs, docs, errorHandler, last>>

(* ------------------------------ bounds -------------------------------- *)

\* number of on(...) calls explored
MaxDecs == 1
\* number of applications of a registration object to a handler explored
MaxRegs == 2

(* --------------------------- schema values ---------------------------- *)

\* Python's None: the default of request_model / response_model.
None == "None"
\* the "NotProvided" default of __annotations__.get (NotProvidedType).
NotProvided == "NotProvided"

\* pydantic models of the example application, with their required fields.
DownloadFileRequest == "DownloadFileRequest"
DownloadAccepted == "DownloadAccepted"
AnyModel == "AnyModel"
Models == {DownloadFileRequest, DownloadAccepted, AnyModel}

RequiredFields(m) ==
    CASE m = DownloadFileRequest -> {"url", "location"}
      [] m = DownloadAccepted -> {"data"}
      [] OTHER -> {}

\* isinstance(x, type(BaseModel)): x is a pydantic model class.
IsModelClass(x) == x \in Models

\* truth value of a schema argument: None is falsy, a class or the
\* "NotProvided" string is truthy.
SchemaTruthy(x) == x # None

(* ------------------------------ values -------------------------------- *)

\* Every value is a record [kind, cls, keys]: a dict with its keys, a model
\* instance with its class and fields, a JSON text, an exception with its
\* class and cause, or the absent value.
Dict(ks) == [kind |-> "dict", cls |-> "dict", keys |-> ks]
Instance(m, ks) == [kind |-> "model", cls |-> m, keys |-> ks]
Error(c, cause) == [kind |-> "error", cls |-> c, keys |-> cause]
NoVal == [kind |-> "absent", cls |-> "NoneType", keys |-> {}]

\* bool(value) as the wrapper's "if not request" / "if request" sees it.
Truthy(v) == v.kind # "absent" /\ ~(v.kind = "dict" /\ v.keys = {})

\* BaseModel.validate(value): the required fields the value lacks; an
\* instance of the class itself is accepted as it is.
MissingFields(m, v) ==
    IF v.kind = "model" /\ v.cls = m THEN {} ELSE RequiredFields(m) \ v.keys

\* BaseModel.json(): the textual encoding of the instance's fields.
Json(v) == [kind |-> "json", cls |-> v.cls, keys |-> v.keys]

(* ------------------------------ handlers ------------------------------ *)

\* Handler functions offered for registration: the example's download_file,
\* a zero-argument event, and a handler with an undeclared parameter type and
\* a return type that is no pydantic model.
Handlers == {"download_file", "ping", "echo"}

\* inspect.getfullargspec(handler)[0]: the positional parameter names.
ArgNames(h) ==
    CASE h = "download_file" -> <<"request">>
      [] h = "ping" -> <<>>
      [] OTHER -> <<"data">>

\* handler.__annotations__
Annotations(h) ==
    CASE h = "download_file" ->
            [request |-> DownloadFileRequest, return |-> DownloadAccepted]
      [] h = "ping" -> <<>>
      [] OTHER -> [return |-> "int"]

\* dict.get(key, default)
DictGet(d, key, default) == IF key \in DOMAIN d THEN d[key] ELSE default

\* A call of the wrapped handler: positional arguments and keyword arguments.
NoKwargs == <<>>
CallNone == [args |-> <<>>, kwargs |-> NoKwargs]
CallPos(p) == [args |-> <<p>>, kwargs |-> NoKwargs]
CallKw(k, p) == [args |-> <<>>, kwargs |-> (k :> p)]

Payloads == {Dict({}), Dict({"location"}), Dict({"url", "location"})}
\* The calls made of a wrapper of handler h: without payload, with a
\* positional payload, or with the payload under the name of h's parameter.
Calls(h) ==
    {CallNone} \cup {CallPos(p) : p \in Payloads}
        \cup {CallKw(ArgNames(h)[i], p) : i \in 1..Len(ArgNames(h)),
                                          p \in Payloads}

\* What a handler body may do once entered: return a dict, return a model
\* instance, or raise (as parse_obj does in download_file).
Behaviours ==
    { Dict({}), Dict({"data"}),
      Instance(DownloadAccepted, {"success", "error", "data"}),
      Error("ValidationError", {"url"}) }

\* Python binds the call's arguments to the handler's parameters.
Binds(h, call) ==
    LET n == Len(ArgNames(h))
        p == Len(call.args)
    IN  /\ p <= n
        /\ DOMAIN call.kwargs = {ArgNames(h)[i] : i \in (p + 1)..n}

\* handler(*args, **kwargs): the body's behaviour, or the TypeError of a
\* call whose arguments do not fit the signature.
HandlerCall(h, call, beh) ==
    IF Binds(h, call) THEN beh ELSE Error("TypeError", {})

(* ------------------------- schema resolution -------------------------- *)

\* The body of on.decorator that assigns the closure's request_model and
\* response_model: <<request_model, response_model>> after it ran.
ResolveModels(h, get_from_typehint, request_model, response_model) ==
    IF get_from_typehint
    THEN LET posible_request_model ==
                 IF Len(ArgNames(h)) = 0 THEN None
                 ELSE DictGet(Annotations(h), ArgNames(h)[1], NotProvided)
             posible_response_model ==
                 DictGet(Annotations(h), "return", NotProvided)
         IN  << IF request_model = None THEN posible_request_model
                ELSE request_model,
                IF response_model = None THEN posible_response_model
                ELSE response_model >>
    ELSE <<request_model, response_model>>

(* ------------------------ the validating wrapper ---------------------- *)

Returned(v) == [kind |-> "return", val |-> v]
Raised(e) == [kind |-> "raise", val |-> e]
NoOutcome == [kind |-> "none", val |-> NoVal]

\* request = args[0] if len(args) > 0 else None
\* if not request: request = kwargs.get("request")
RequestOf(call) ==
    LET first == IF Len(call.args) > 0 THEN call.args[1] ELSE NoVal
    IN  IF ~Truthy(first) THEN DictGet(call.kwargs, "request", NoVal) ELSE first

\* self.validate and model and isinstance(model, type(BaseModel))
ShouldValidate(v, model) == v /\ SchemaTruthy(model) /\ IsModelClass(model)

\* A plausible slip: a ValidationError of the handler body translated as
\* if the request check had raised it (the call placed inside the try block).
HandlerRaisedTranslated(e) ==
    IF e.cls = "ValidationError"
    THEN Raised(Error("RequestValidationError", e.keys))
    ELSE Raised(e)

\* "response = handler(*args, **kwargs)" stands outside both try blocks: what
\* the handler raises leaves the wrapper as it is.
HandlerRaised(e) == Raised(e)

\* "if isinstance(response, BaseModel): return response.json()
\*  else: return response"
Serialized(response) ==
    IF response.kind = "model" THEN Json(response) ELSE response

\* A plausible slip: the serialisation applied on the zero-argument path too.
UnserializedAsJson(response) ==
    IF response.kind = "model" THEN Json(response) ELSE response

\* "else: return handler(*args, **kwargs)": the result as the handler gave it.
Unserialized(response) == response

\* _handle_all(...)(handler)(*args, **kwargs): which checks ran, how often
\* the handler was called, what the handler did and what the call produced.
HandleAll(v, request_model, response_model, h, call, beh) ==
    LET request == RequestOf(call)
        response == HandlerCall(h, call, beh)
    IN  IF Truthy(request)
        THEN IF ShouldValidate(v, request_model)
                  /\ MissingFields(request_model, request) # {}
             THEN [reqChecked |-> TRUE, calls |-> 0, respChecked |-> FALSE,
                   handlerDid |-> NoVal,
                   outcome |-> Raised(Error("RequestValidationError",
                                  MissingFields(request_model, request)))]
             ELSE IF response.kind = "error"
             THEN [reqChecked |-> ShouldValidate(v, request_model),
                   calls |-> 1, respChecked |-> FALSE,
                   handlerDid |-> response,
                   outcome |-> HandlerRaised(response)]
             ELSE IF ShouldValidate(v, response_model)
                  /\ MissingFields(response_model, response) # {}
             THEN [reqChecked |-> ShouldValidate(v, request_model),
                   calls |-> 1, respChecked |-> TRUE,
                   handlerDid |-> response,
                   outcome |-> Raised(Error("ResponseValidationError",
                                  MissingFields(response_model, response)))]
             ELSE [reqChecked |-> ShouldValidate(v, request_model),
                   calls |-> 1,
                   respChecked |-> ShouldValidate(v, response_model),
                   handlerDid |-> response,
                   outcome |-> Returned(Serialized(response))]
        ELSE [reqChecked |-> FALSE, calls |-> 1, respChecked |-> FALSE,
              handlerDid |-> response,
              outcome |-> IF response.kind = "error"
                          THEN HandlerRaised(response)
                          ELSE Returned(Unserialized(response))]

\* on.decorator.wrapper: builds the validating handler from the closure's
\* models with _handle_all and calls it with the arguments it was given.
OnWrapper(v, request_model, response_model, h, call, beh) ==
    HandleAll(v, request_model, response_model, h, call, beh)

(* --------------------------- documentation ---------------------------- *)

\* AsyncAPIDoc.add_new_receiver(handler, message, ack_data_model,
\* payload_model): the registry gains one entry, at its end.
add_new_receiver(registry, handler, message, ack_data_model, payload_model) ==
    Append(registry, [event |-> message, handler |-> handler,
                      request_schema |-> payload_model,
                      response_schema |-> ack_data_model])

\* "if self.generate_docs: self.asyncapi_doc.add_new_receiver(...)" of
\* on.decorator.
DocsAfterRegistration(registry, gen, h, message, ack_model, payload_model) ==
    IF gen
    THEN add_new_receiver(registry, h, message, ack_model, payload_model)
    ELSE registry

\* A plausible slip: the documentation entry added by the wrapper, at each
\* call, instead of once by the decorator.
DocsAddedAtInvocation(registry, gen, h, message, ack_model, payload_model) ==
    IF gen
    THEN add_new_receiver(registry, h, message, ack_model, payload_model)
    ELSE registry

\* The wrapper that on.decorator registers leaves the registry alone.
DocsAfterInvocation(registry, gen, h, message, ack_model, payload_model) ==
    registry

(* --------------------------- error handling --------------------------- *)

\* str(e) of a validation failure: the message naming the offending fields.
Str(e) == [message |-> e.cls, names |-> e.keys]

\* SocketErrorResponse(error=...).json()
SocketErrorResponseJson(msg) ==
    [kind |-> "json", cls |-> "SocketErrorResponse",
     keys |-> {"success", "error"}, success |-> FALSE, error |-> msg]

\* A plausible slip: every validation error answered with an error response.
default_error_handler_lenient(e) ==
    IF e.cls \in {"RequestValidationError", "ResponseValidationError"}
    THEN Returned(SocketErrorResponseJson(Str(e)))
    ELSE Raised(e)

\* examples/downloader.py: default_error_handler(e)
default_error_handler(e) ==
    IF e.cls = "RequestValidationError"
    THEN Returned(SocketErrorResponseJson(Str(e)))
    ELSE IF e.cls = "ResponseValidationError"
    THEN Raised(e)
    ELSE Raised(e)

\* The forms in which on_error_default is used: bare on a function, called
\* without arguments, called with model=None, called with a model.
ErrorHandlers == {"default_error_handler"}
ErrorForms ==
    { [bare |-> TRUE, kwargs |-> NoKwargs],
      [bare |-> FALSE, kwargs |-> NoKwargs],
      [bare |-> FALSE, kwargs |-> [model |-> None]],
      [bare |-> FALSE, kwargs |-> [model |-> "SocketBaseResponse"]] }

\* AsyncAPISocketIO.on_error_default(*args, **kwargs), followed by the
\* application of the returned decorator to the function h: the fallback
\* handler installed afterwards and what the statement produced.
OnErrorDefault(form, h, current) ==
    LET args == IF form.bare THEN <<h>> ELSE <<>>
    IN  IF Len(args) = 1 /\ DOMAIN form.kwargs = {}
        THEN [installed |-> args[1], outcome |-> Returned(NoVal)]
        ELSE IF DictGet(form.kwargs, "model", None) = None
        THEN [installed |-> current,
              outcome |-> Raised(Error("AssertionError", {}))]
        ELSE [installed |-> h, outcome |-> Returned(NoVal)]

(* ------------------------------ state --------------------------------- *)

Events == {"download_file", "status"}
\* The schemas passed explicitly to on(...).
ExplicitSchemas == {None, AnyModel}

NoCall == [args |-> <<>>, kwargs |-> NoKwargs]

Idle ==
    [op |-> "none", reg |-> 0, eh |-> None, call |-> NoCall, beh |-> NoVal,
     form |-> [bare |-> FALSE, kwargs |-> NoKwargs],
     reqChecked |-> FALSE, calls |-> 0, respChecked |-> FALSE,
     handlerDid |-> NoVal, outcome |-> NoOutcome]

Init ==
    /\ validate \in BOOLEAN
    /\ generate_docs \in BOOLEAN
    /\ decs = <<>>
    /\ regs = <<>>
    /\ docs = <<>>
    /\ errorHandler = None
    /\ last = Idle

\* socketio.on(message, get_from_typehint=..., request_model=...,
\* response_model=...): a new registration object whose closure holds the
\* arguments.
On(message, get_from_typehint, request_model, response_model) ==
    /\ Len(decs) < MaxDecs
    /\ decs' = Append(decs,
           [message |-> message, get_from_typehint |-> get_from_typehint,
            request_model |-> request_model,
            response_model |-> response_model,
            explicit_request |-> request_model,
            explicit_response |-> response_model])
    /\ last' = [Idle EXCEPT !.op = "on"]
    /\ UNCHANGED <<validate, generate_docs, regs, docs, errorHandler>>

\* decorator(handler) of registration object d: the closure's models are
\* reassigned, the documentation entry is added, and the wrapper is
\* registered with SocketIO.
Decorator(d, h) ==
    /\ Len(regs) < MaxRegs
    /\ LET dec == decs[d]
           rm == ResolveModels(h, dec.get_from_typehint, dec.request_model,
                               dec.response_model)
       IN  /\ decs' = [decs EXCEPT ![d].request_model = rm[1],
                                   ![d].response_model = rm[2]]
           /\ docs' = DocsAfterRegistration(docs, generate_docs, h,
                          dec.message, rm[2], rm[1])
           /\ regs' = Append(regs,
                  [dec |-> d, handler |-> h, event |-> dec.message,
                   request_model |-> rm[1], response_model |-> rm[2]])
    /\ last' = [Idle EXCEPT !.op = "register", !.reg = Len(regs) + 1]
    /\ UNCHANGED <<validate, generate_docs, errorHandler>>

\* A call of the wrapper registered as r: it builds the validating wrapper
\* from the closure's current models and calls it.
Invoke(r, call, beh) ==
    LET reg == regs[r]
        dec == decs[reg.dec]
        w == OnWrapper(validate, dec.request_model, dec.response_model,
                       reg.handler, call, beh)
    IN  /\ last' = [op |-> "call", reg |-> r, eh |-> None, call |-> call,
                    beh |-> beh, form |-> Idle.form,
                    reqChecked |-> w.reqChecked, calls |-> w.calls,
                    respChecked |-> w.respChecked,
                    handlerDid |-> w.handlerDid, outcome |-> w.outcome]
        /\ docs' = DocsAfterInvocation(docs, generate_docs, reg.handler,
                       dec.message, dec.response_model, dec.request_model)
        /\ UNCHANGED <<validate, generate_docs, decs, regs, errorHandler>>

\* @socketio.on_error_default in one of its forms, on the function h.
RegisterErrorHandler(form, h) ==
    LET res == OnErrorDefault(form, h, errorHandler)
    IN  /\ errorHandler' = res.installed
        /\ last' = [Idle EXCEPT !.op = "on_error_default", !.eh = h,
                                !.form = form, !.outcome = res.outcome]
        /\ UNCHANGED <<validate, generate_docs, decs, regs, docs>>

\* The exception a wrapped call raised is handed to the installed fallback
\* handler.
HandleError ==
    /\ last.op = "call"
    /\ last.outcome.kind = "raise"
    /\ errorHandler # None
    /\ last' = [Idle EXCEPT !.op = "error_handler", !.eh = errorHandler,
                            !.handlerDid = last.outcome.val,
                            !.outcome = default_error_handler(last.outcome.val)]
    /\ UNCHANGED <<validate, generate_docs, decs, regs, docs, errorHandler>>

Next ==
    \/ \E m \in Events, g \in BOOLEAN, rq \in ExplicitSchemas,
          rs \in ExplicitSchemas : On(m, g, rq, rs)
    \/ \E d \in 1..Len(decs), h \in Handlers : Decorator(d, h)
    \/ \E r \in 1..Len(regs) :
          \E c \in Calls(regs[r].handler), b \in Behaviours : Invoke(r, c, b)
    \/ \E f \in ErrorForms, h \in ErrorHandlers : RegisterErrorHandler(f, h)
    \/ HandleError

Spec == Init /\ [][Next]_vars

(* ------------------------------ claims -------------------------------- *)

\* Whether a call carries a payload, and the payload it carries.
HasPayload(call) == Len(call.args) > 0 \/ DOMAIN call.kwargs # {}
PayloadOf(call) ==
    IF Len(call.args) > 0 THEN call.args[1]
    ELSE IF DOMAIN call.kwargs # {}
    THEN call.kwargs[CHOOSE k \in DOMAIN call.kwargs : TRUE]
    ELSE NoVal

\* The registration the last call went to, the schemas its wrapper was built
\* with, and what its handler does with the call's arguments.
LastReg == regs[last.reg]
LastRequestSchema == decs[LastReg.dec].request_model
LastResponseSchema == decs[LastReg.dec].response_model
LastHandlerResult == HandlerCall(LastReg.handler, last.call, last.beh)
IsCall == last.op = "call"

\* The schemas the signature of h declares.
DeclaresFirstParam(h) ==
    Len(ArgNames(h)) > 0 /\ ArgNames(h)[1] \in DOMAIN Annotations(h)
DeclaresReturn(h) == "return" \in DOMAIN Annotations(h)
Unresolved(schema) == schema \in {None, NotProvided}

\* C1: with validation enabled and a concrete request schema S, a payload P
\* (of any value, positional or by keyword) reaches the handler iff P
\* validates against S; otherwise a RequestValidationError is produced and
\* the handler is not invoked.
C1_ForwardedIffRequestValid ==
    (IsCall /\ validate /\ IsModelClass(LastRequestSchema)
        /\ HasPayload(last.call)) =>
    LET missing == MissingFields(LastRequestSchema, PayloadOf(last.call))
    IN  /\ (last.calls = 1) <=> (missing = {})
        /\ missing # {} =>
              /\ last.calls = 0
              /\ last.outcome =
                     Raised(Error("RequestValidationError", missing))

\* C2: with validation enabled and a concrete response schema S, a wrapped
\* call that received a payload and whose handler returned R returns a value
\* iff R validates against S; otherwise it raises ResponseValidationError.
C2_ReturnsIffResponseValid ==
    (IsCall /\ validate /\ IsModelClass(LastResponseSchema)
        /\ HasPayload(last.call) /\ last.calls = 1
        /\ LastHandlerResult.kind # "error") =>
    LET missing == MissingFields(LastResponseSchema, LastHandlerResult)
    IN  /\ (last.outcome.kind = "return") <=> (missing = {})
        /\ missing # {} =>
              last.outcome =
                  Raised(Error("ResponseValidationError", missing))

\* C3: at every registration an explicit schema overrides the inferred one;
\* with inference and no explicit schema a handler declared (T1) -> T2
\* resolves to (T1, T2); without inference the explicit values are used as
\* given.
C3_ResolutionPrecedence ==
    \A i \in 1..Len(regs) :
        LET r == regs[i]
            d == decs[r.dec]
            h == r.handler
        IN  /\ d.explicit_request # None =>
                  r.request_model = d.explicit_request
            /\ d.explicit_response # None =>
                  r.response_model = d.explicit_response
            /\ (d.get_from_typehint /\ d.explicit_request = None
                    /\ DeclaresFirstParam(h)) =>
                  r.request_model = Annotations(h)[ArgNames(h)[1]]
            /\ (d.get_from_typehint /\ d.explicit_response = None
                    /\ DeclaresReturn(h)) =>
                  r.response_model = Annotations(h)["return"]
            /\ ~d.get_from_typehint =>
                  /\ r.request_model = d.explicit_request
                  /\ r.response_model = d.explicit_response

\* C4: a wrapped call without any payload performs no request and no
\* response validation, whatever the schemas and the validation setting,
\* calls the handler exactly once, and hands back what the handler produced
\* unmodified (a model instance is not serialised).
C4_ZeroArgumentBypass ==
    (IsCall /\ ~HasPayload(last.call)) =>
        /\ ~last.reqChecked
        /\ ~last.respChecked
        /\ last.calls = 1
        /\ last.outcome = IF LastHandlerResult.kind = "error"
                          THEN Raised(LastHandlerResult)
                          ELSE Returned(LastHandlerResult)

C4_Witness ==
    /\ IsCall /\ ~HasPayload(last.call) /\ validate
    /\ IsModelClass(LastRequestSchema) /\ IsModelClass(LastResponseSchema)
    /\ last.calls = 1
    /\ last.outcome.kind = "return" /\ last.outcome.val.kind = "model"

\* C5: the documentation registry is exactly the sequence of registrations
\* made while documentation generation is enabled, in registration order,
\* each once with its event name and its two resolved schemas, whether or
\* not validation is enabled; calls of wrapped handlers leave it as it is.
C5_DocRegistryIsRegistrationLog ==
    docs = IF generate_docs
           THEN [i \in 1..Len(regs) |->
                    [event |-> regs[i].event, handler |-> regs[i].handler,
                     request_schema |-> regs[i].request_model,
                     response_schema |-> regs[i].response_model]]
           ELSE <<>>

C5_Witness ==
    /\ generate_docs /\ ~validate /\ IsCall
    /\ Len(docs) = 2 /\ docs[1].handler # docs[2].handler

\* C6: the default error handler turns a RequestValidationError into a
\* returned error response (success false, error the readable cause), and
\* re-raises a ResponseValidationError and every other error; nothing but a
\* RequestValidationError becomes a returned value.
C6_ErrorHandlerDispatch ==
    last.op = "error_handler" =>
        LET e == last.handlerDid
        IN  /\ e.cls = "RequestValidationError" =>
                  /\ last.outcome.kind = "return"
                  /\ last.outcome.val.kind = "json"
                  /\ last.outcome.val.success = FALSE
                  /\ last.outcome.val.error = Str(e)
            /\ e.cls # "RequestValidationError" => last.outcome = Raised(e)

C6_Witness ==
    /\ last.op = "error_handler"
    /\ last.handlerDid.cls = "RequestValidationError"
    /\ last.handlerDid.keys = {"url"}
    /\ last.outcome.kind = "return"

\* C7: what a registration resolves to depends only on the handler, the
\* explicit schemas and the inference flag given to on(...), not on the
\* registrations made before, also when one registration object is applied
\* to several handlers.
C7_ResolutionHasNoHiddenState ==
    \A i \in 1..Len(regs) :
        LET r == regs[i]
            d == decs[r.dec]
        IN  <<r.request_model, r.response_model>> =
                ResolveModels(r.handler, d.get_from_typehint,
                              d.explicit_request, d.explicit_response)

\* C8: with inference and no explicit schema, a handler without parameter
\* or with an undeclared first parameter type resolves its request schema
\* to "unresolved", one without return type its response schema, and a side
\* that resolved to "unresolved" is not validated when the handler is called.
C8_UnresolvedFallback ==
    /\ \A i \in 1..Len(regs) :
          LET r == regs[i]
              d == decs[r.dec]
          IN  (d.get_from_typehint /\ d.explicit_request = None
                 /\ d.explicit_response = None) =>
                 /\ ~DeclaresFirstParam(r.handler) =>
                        Unresolved(r.request_model)
                 /\ ~DeclaresReturn(r.handler) =>
                        Unresolved(r.response_model)
    /\ IsCall =>
          /\ Unresolved(LastReg.request_model) => ~last.reqChecked
          /\ Unresolved(LastReg.response_model) => ~last.respChecked

\* C9: on_error_default installs the given function as the fallback error
\* handler in each of its forms (bare, model omitted, model None, model
\* given), the model making no difference.
C9_ErrorHandlerInstalledInEveryForm ==
    last.op = "on_error_default" =>
        /\ errorHandler = last.eh
        /\ last.outcome.kind = "return"

\* C10: RequestValidationError comes only from the request check before the
\* handler runs, ResponseValidationError only from the response check after
\* the handler returned; what the handler itself raises leaves the wrapped
\* call unchanged, with no response check and no serialisation; the handler
\* is called at most once.
C10_OnlyOwnChecksTranslated ==
    IsCall =>
        /\ last.calls \in {0, 1}
        /\ (last.outcome.kind = "raise"
              /\ last.outcome.val.cls = "RequestValidationError") =>
              /\ last.reqChecked /\ last.calls = 0
              /\ MissingFields(LastRequestSchema, RequestOf(last.call)) # {}
        /\ (last.outcome.kind = "raise"
              /\ last.outcome.val.cls = "ResponseValidationError") =>
              /\ last.respChecked /\ last.calls = 1
              /\ LastHandlerResult.kind # "error"
              /\ MissingFields(LastResponseSchema, LastHandlerResult) # {}
        /\ (last.calls = 1 /\ LastHandlerResult.kind = "error") =>
              /\ last.outcome = Raised(LastHandlerResult)
              /\ ~last.respChecked

C10_Witness ==
    /\ IsCall /\ validate /\ last.reqChecked /\ last.calls = 1
    /\ IsModelClass(LastResponseSchema)
    /\ last.beh.kind = "error" /\ last.beh.cls = "ValidationError"
    /\ last.outcome = Raised(last.beh)

====
